---- MODULE Spec2Model ----
\* A model of the c_class runtime object model: the Class aggregate with its
\* member table, function table, constructor and destructor records, the
\* allocator it runs on, and the dispatcher (function_invoke).
\*
\* The heap is explicit: every malloc'ed block has an identity, a state
\* (unused / live / released) and contents, and pointers are block ids, so that
\* copying versus aliasing, release order, double release and access after
\* release are facts of a state and of the event list of an operation.
EXTENDS Integers, Sequences, FiniteSets, TLC

\* ---------------------------------------------------------------- bounds
\* Number of operations in one run: the library calls (create, append, invoke,
\* destroy) and what the caller does to its descriptor.
MaxSteps == 3
\* Largest small index the caller probes (next to SIZE_MAX).
MaxIndex == 2
\* Number of allocations that fail in one run.
MaxFailures == 1

\* size_t arithmetic is modular.  TLC's integers are 32 bits wide, so the
\* modulus 2^64 of the source's size_t is represented by 2^30; every count and
\* index of the model is far below both, and SIZE_MAX is the value -1 wraps to.
SizeMod == 2^30
SIZE_MAX == SizeMod - 1
SizeSub(a, b) == (a - b + SizeMod) % SizeMod

NULL == 0

\* ------------------------------------------------------------ data model
\* MemberType and the Member struct.  data is the raw value (the float or
\* integer payload, written here as an integer).
MemberTypes == {"F32", "F64", "I32", "U32"}
Member(n, t, d) == [name |-> n, type |-> t, data |-> d]

\* FunctionType.  "Uninit" is the content of a field of a malloc'ed or stack
\* record that no statement has written yet.
FunctionTypes == {"CONSTRUCTOR", "DESTRUCTOR", "MEMBER_FUNCTION"}
\* The Function struct: name, type, fn (unary callable), binary_member_fn.
\* Callables are named by their entry points: the unary vec2_ctor, vec2_dtor,
\* test_class_ctor and my_class_method, and the binary vec2_add.
Function(n, t, f, bf) == [name |-> n, type |-> t, fn |-> f, bin |-> bf]

\* The Class struct; pointers are block ids, NULL is 0.
NullClass ==
    [name |-> "", ctor |-> NULL, dtor |-> NULL, members |-> NULL,
     num_members |-> 0, functions |-> NULL, num_functions |-> 0]

\* One heap block.  The heap is the sequence of the blocks handed out so far, a
\* block's id is its position, and ids are never reused.  kind tells what was stored in it: "class" (a Class),
\* "members" (a Member array), "functions" (a Function array), "record" (one
\* Function, the ctor or dtor record).
NoBlock == [st |-> "unused", kind |-> "none", ms |-> <<>>, fs |-> <<>>, k |-> NullClass]
ClassBlock(c) == [st |-> "live", kind |-> "class", ms |-> <<>>, fs |-> <<>>, k |-> c]
MembersBlock(s) == [st |-> "live", kind |-> "members", ms |-> s, fs |-> <<>>, k |-> NullClass]
FunctionsBlock(s) == [st |-> "live", kind |-> "functions", ms |-> <<>>, fs |-> s, k |-> NullClass]
RecordBlock(f) == [st |-> "live", kind |-> "record", ms |-> <<>>, fs |-> <<f>>, k |-> NullClass]

\* A pointer to a Function record: block and 1-based position in it.
FnPtr(b, i) == [b |-> b, i |-> i]
NullFn == FnPtr(NULL, 0)

VARIABLES
    heap,       \* the allocator's blocks, in allocation order
    desc,       \* the caller's ClassCreateInfo (pointers into heap)
    descState,  \* "intact", "changed" or "released": what the caller did to its arrays
    handles,    \* the Class handles the caller holds (created, not destroyed)
    made,       \* history per handle: ctor/dtor record blocks and dispatch counts
    ev,         \* the events of the last library call, in program order
    bad,        \* undefined behaviour met so far (a set of tags)
    last,       \* the last library call: operation, arguments, result
    steps,      \* number of operations so far
    failures    \* number of allocations that failed so far

vars == <<heap, desc, descState, handles, made, ev, bad, last, steps, failures>>

\* ---------------------------------------------------------------- events
\* The events an operation leaves in program order: "malloc" and "free" of a
\* block, "break" (DEBUG_BREAK), "call" of a callable through the Function
\* record in block b (the callable, the record's type, the form used, the
\* arguments passed, and which of the instance's blocks were already released
\* at that moment, and what the instance held: its name, counts and tables),
\* and "return" of an instance b from a binary callable.
NoSeen == [name |-> "", num_members |-> 0, num_functions |-> 0, ms |-> <<>>, fs |-> <<>>]
Ev(e, b) ==
    [e |-> e, b |-> b, fnc |-> "-", kind |-> "-", form |-> "-", arg |-> NULL, oth |-> NULL,
     gone |-> {}, seen |-> NoSeen]
CallEv(b, rec, form, arg, oth, gone, seen) ==
    [e |-> "call", b |-> b, fnc |-> IF form = "unary" THEN rec.fn ELSE rec.bin,
     kind |-> rec.type, form |-> form, arg |-> arg, oth |-> oth, gone |-> gone, seen |-> seen]

\* The machine an operation runs on: the heap H, the events so far, the
\* undefined behaviour met, and the allocator's choices for this call:
\* oom = n > 0 makes the n-th allocation from now fail; moves tells whether a
\* successful realloc relocates the block.
Machine(H, oom, moves) ==
    [H |-> H, ev |-> <<>>, bad |-> {}, oom |-> oom, moves |-> moves, failed |-> FALSE]
Emit(M, e) == [M EXCEPT !.ev = Append(@, e)]
Flag(M, tag) == [M EXCEPT !.bad = @ \cup {tag}]
Res(M, r) == [M |-> M, ret |-> r]

\* Bind(x, F) is F(x) with x evaluated once, before F is entered: the way a
\* C statement evaluates its operands before the next statement runs.
Bind(x, F(_)) == CHOOSE y \in {F(v) : v \in {x}} : TRUE

Fresh(H) == Len(H) + 1
Live(H, b) == b \in 1..Len(H) /\ H[b].st = "live"

\* A load from / store to block b at this point of the program.
read(M, b) ==
    IF b = NULL THEN Flag(M, "null_deref")
    ELSE IF ~Live(M.H, b) THEN Flag(M, "use_after_release")
    ELSE M
write(M, b) ==
    IF b = NULL THEN Flag(M, "null_deref")
    ELSE IF ~Live(M.H, b) THEN Flag(M, "use_after_release")
    ELSE M

\* DEBUG_BREAK is __debugbreak(): a trap for the debugger, after which the
\* statement that follows it (a return, in every use) runs.
DEBUG_BREAK(M) == Emit(M, Ev("break", NULL))

Tick(M) == [M EXCEPT !.oom = IF @ > 0 THEN @ - 1 ELSE 0]
Fail(M) == [Tick(M) EXCEPT !.failed = TRUE]

\* malloc: NULL when the allocator fails, else a fresh live block holding init.
malloc(M, init) ==
    IF M.oom = 1 THEN Res(Fail(M), NULL)
    ELSE Res([Emit(Tick(M), Ev("malloc", Fresh(M.H))) EXCEPT !.H = Append(@, init)], Fresh(M.H))

\* free: free(NULL) does nothing; a second free of a block is a double release.
free(M, b) ==
    IF b = NULL THEN M
    ELSE IF ~Live(M.H, b) THEN Flag(Emit(M, Ev("free", b)), "double_release")
    ELSE [Emit(M, Ev("free", b)) EXCEPT !.H[b].st = "released"]

\* realloc(p, n): on failure NULL and p untouched; realloc(NULL, n) is malloc;
\* on success the contents are kept in the old block grown in place, or in a
\* new block with the old one released.  grown is the block's new content.
realloc(M, p, grown) ==
    IF M.oom = 1 THEN Res(Fail(M), NULL)
    ELSE IF p = NULL THEN malloc(M, grown)
    ELSE IF ~Live(M.H, p) THEN Res(Flag(Emit(Tick(M), Ev("free", p)), "use_after_release"), p)
    ELSE IF M.moves
         THEN LET b  == Fresh(M.H)
                  M1 == [Emit(Tick(M), Ev("malloc", b)) EXCEPT !.H = Append(@, grown)]
              IN Res([Emit(M1, Ev("free", p)) EXCEPT !.H[p].st = "released"], b)
         ELSE Res([Tick(M) EXCEPT !.H[p] = grown], p)

\* ------------------------------------------------------------- accessors
\* &base[index]: the address of element index of the array at base.  With a
\* null base it is the null pointer for index 0 and a wild pointer otherwise.
ElemPtr(base, index) ==
    IF base = NULL /\ index = 0 THEN NullFn ELSE FnPtr(base, index + 1)

\* What a load through a Function pointer yields.
GarbageFunction == Function("", "Uninit", "Uninit", "Uninit")
DerefFunction(H, p) ==
    IF p.b # NULL /\ p.i \in 1..Len(H[p.b].fs) THEN H[p.b].fs[p.i] ELSE GarbageFunction
GarbageMember == Member("", "Uninit", 0)
DerefMember(H, p) ==
    IF p.b # NULL /\ p.i \in 1..Len(H[p.b].ms) THEN H[p.b].ms[p.i] ELSE GarbageMember
\* Whether p points at an element of a live array.
ValidMember(H, p) == Live(H, p.b) /\ p.i \in 1..Len(H[p.b].ms)
ValidFunction(H, p) == Live(H, p.b) /\ p.i \in 1..Len(H[p.b].fs)

class_get_num_members(M, klass) ==
    IF klass = NULL THEN Res(M, 0)
    ELSE Res(read(M, klass), M.H[klass].k.num_members)

class_get_num_functions(M, klass) ==
    IF klass = NULL THEN Res(M, 0)
    ELSE Res(read(M, klass), M.H[klass].k.num_functions)

class_has_constructor(M, klass) ==
    IF klass = NULL THEN Res(M, 0)
    ELSE Res(read(M, klass), IF M.H[klass].k.ctor # NULL THEN 1 ELSE 0)

\* class_has_destructor with its test inverted: klass->dtor == NULL.
class_has_destructor_inverted(M, klass) ==
    IF klass = NULL THEN Res(M, 0)
    ELSE Res(read(M, klass), IF M.H[klass].k.dtor = NULL THEN 1 ELSE 0)

class_has_destructor(M, klass) ==
    IF klass = NULL THEN Res(M, 0)
    ELSE Res(read(M, klass), IF M.H[klass].k.dtor # NULL THEN 1 ELSE 0)

class_get_member(M, klass, index) ==
    IF klass = NULL THEN Res(M, NullFn)
    ELSE Bind(class_get_num_members(M, klass), LAMBDA n :
            IF index < n.ret
            THEN Res(n.M, ElemPtr(n.M.H[klass].k.members, index))
            ELSE Res(DEBUG_BREAK(n.M), NullFn))

class_get_function(M, klass, index) ==
    IF klass = NULL THEN Res(M, NullFn)
    ELSE Bind(class_get_num_functions(M, klass), LAMBDA n :
            IF index < n.ret
            THEN Res(n.M, ElemPtr(n.M.H[klass].k.functions, index))
            ELSE Res(DEBUG_BREAK(n.M), NullFn))

function_get_type(M, function) ==
    IF function = NullFn THEN Res(M, "MEMBER_FUNCTION")
    ELSE Res(read(M, function.b), DerefFunction(M.H, function).type)

\* A const char* result: the null pointer, or a pointer to the text s.
Str(s) == [null |-> FALSE, s |-> s]
NullStr == [null |-> TRUE, s |-> ""]

function_get_name(M, function) ==
    IF function = NullFn THEN Res(M, NullStr)
    ELSE Res(read(M, function.b), Str(DerefFunction(M.H, function).name))

member_get_name(M, member) ==
    IF member = NullFn THEN Res(M, NullStr)
    ELSE Res(read(M, member.b), Str(DerefMember(M.H, member).name))

member_get_type(M, member) ==
    IF member = NullFn THEN Res(M, "I32")
    ELSE Res(read(M, member.b), DerefMember(M.H, member).type)

\* member_get_data: the null test only breaks; return member->data follows it.
member_get_data(M, member) ==
    Bind(IF member = NullFn THEN DEBUG_BREAK(M) ELSE M, LAMBDA M1 :
        Res(read(M1, member.b), DerefMember(M1.H, member).data))

class_get_name(M, klass) ==
    IF klass = NULL THEN Res(M, NullStr)
    ELSE Res(read(M, klass), Str(M.H[klass].k.name))

class_get_constructor(M, klass) ==
    IF klass = NULL THEN Res(M, NullFn)
    ELSE Res(read(M, klass), IF M.H[klass].k.ctor = NULL THEN NullFn ELSE FnPtr(M.H[klass].k.ctor, 1))

class_get_destructor(M, klass) ==
    IF klass = NULL THEN Res(M, NullFn)
    ELSE Res(read(M, klass), IF M.H[klass].k.dtor = NULL THEN NullFn ELSE FnPtr(M.H[klass].k.dtor, 1))

\* ------------------------------------------------------------- callables
\* The loads of a loop that takes &base[i] for i < n through class_get_member /
\* class_get_function and reads the element's name unless the pointer is null.
ReadElems(M, base, n) ==
    IF n = 0 THEN M
    ELSE IF base = NULL THEN (IF n > 1 THEN Flag(M, "null_deref") ELSE M)
    ELSE IF ~Live(M.H, base) THEN Flag(M, "use_after_release")
    ELSE IF n > Len(M.H[base].ms) + Len(M.H[base].fs) THEN Flag(M, "out_of_bounds")
    ELSE M

\* my_class_method: prints every member's and every function's name.
my_class_method(M, this) ==
    Bind(read(M, this), LAMBDA M1 :
    Bind(ReadElems(M1, M.H[this].k.members, M.H[this].k.num_members), LAMBDA M2 :
         ReadElems(M2, M.H[this].k.functions, M.H[this].k.num_functions)))

\* test_class_ctor: prints the class name.
test_class_ctor(M, this) == read(M, this)

\* The blocks of the instance klass that are no longer live.
Gone(H, klass) ==
    IF ~Live(H, klass) THEN {klass}
    ELSE {b \in {H[klass].k.ctor, H[klass].k.dtor, H[klass].k.members, H[klass].k.functions}
            \ {NULL} : ~Live(H, b)}

\* What the callee finds in the instance klass when it is entered.
Seen(H, klass) ==
    IF ~Live(H, klass) THEN NoSeen
    ELSE [name |-> H[klass].k.name,
          num_members |-> H[klass].k.num_members,
          num_functions |-> H[klass].k.num_functions,
          ms |-> IF Live(H, H[klass].k.members) THEN H[H[klass].k.members].ms ELSE <<>>,
          fs |-> IF Live(H, H[klass].k.functions) THEN H[H[klass].k.functions].fs ELSE <<>>]

\* The call function->fn(klass): the unary form.  Calling a null or
\* never-written pointer is undefined.
call_unary(M, function, klass) ==
    Bind(DerefFunction(M.H, function), LAMBDA rec :
    Bind(Emit(read(M, function.b),
              CallEv(function.b, rec, "unary", klass, NULL, Gone(M.H, klass), Seen(M.H, klass))),
         LAMBDA M1 :
            CASE rec.fn \in {"vec2_ctor", "vec2_dtor"} -> Res(M1, NULL)
              [] rec.fn = "test_class_ctor" -> Res(test_class_ctor(M1, klass), NULL)
              [] rec.fn = "my_class_method" -> Res(my_class_method(M1, klass), NULL)
              [] OTHER -> Res(Flag(M1, "bad_call"), NULL)))

RECURSIVE function_invoke(_, _, _, _)
RECURSIVE class_create(_, _)

\* The sum of two member arrays as vec2_add writes it into the result: the
\* first two slots are lhs + rhs.
AddInto(r, a, b) ==
    [i \in 1..Len(r) |->
        IF i <= 2 /\ i <= Len(a) /\ i <= Len(b)
        THEN [r[i] EXCEPT !.data = a[i].data + b[i].data]
        ELSE r[i]]

\* Whether p is a live member array of at least n elements.
HasMembers(H, p, n) == Live(H, p) /\ Len(H[p].ms) >= n

\* vec2_add: builds a fresh instance with class_create (create_vec2) and stores
\* lhs + rhs in its first two members.  A null result of create_vec2, or an
\* operand with fewer than two members, is dereferenced all the same.
vec2_add(M, lhs, rhs) ==
    Bind(class_create(M, desc), LAMBDA r :
        IF r.ret = NULL THEN Res(Flag(r.M, "null_deref"), NULL)
        ELSE Bind(read(read(read(r.M, lhs), rhs), r.ret), LAMBDA M1 :
             Bind(M1.H[lhs].k.members, LAMBDA a :
             Bind(M1.H[rhs].k.members, LAMBDA b :
             Bind(M1.H[r.ret].k.members, LAMBDA c :
                IF HasMembers(M1.H, a, 2) /\ HasMembers(M1.H, b, 2) /\ HasMembers(M1.H, c, 2)
                THEN Res([M1 EXCEPT !.H[c].ms = AddInto(@, M1.H[a].ms, M1.H[b].ms)], r.ret)
                ELSE Res(Flag(M1, "out_of_bounds"), r.ret))))))

\* The call function->binary_member_fn(klass, other): the binary form.
call_binary(M, function, klass, other) ==
    Bind(DerefFunction(M.H, function), LAMBDA rec :
    Bind(Emit(read(M, function.b),
              CallEv(function.b, rec, "binary", klass, other, Gone(M.H, klass), Seen(M.H, klass))),
         LAMBDA M1 :
            IF rec.bin = "vec2_add"
            THEN Bind(vec2_add(M1, klass, other), LAMBDA r :
                    Res(Emit(r.M, Ev("return", r.ret)), r.ret))
            ELSE Res(Flag(M1, "bad_call"), NULL)))

\* ------------------------------------------------------------ dispatcher
\* function_invoke as the third iteration had it: every kind called in unary
\* form, the second instance ignored.
function_invoke_unary_only(M, function, klass, other) ==
    IF function = NullFn \/ klass = NULL THEN Res(DEBUG_BREAK(M), NULL)
    ELSE Bind(function_get_type(M, function), LAMBDA t :
            IF t.ret \in FunctionTypes
            THEN Res(call_unary(t.M, function, klass).M, NULL)
            ELSE Res(DEBUG_BREAK(Flag(t.M, "unknown_type")), NULL))

\* function_invoke without the switch on the kind: the form follows the second
\* instance alone.
function_invoke_by_other(M, function, klass, other) ==
    IF function = NullFn \/ klass = NULL THEN Res(DEBUG_BREAK(M), NULL)
    ELSE Bind(function_get_type(M, function), LAMBDA t :
            IF t.ret \in FunctionTypes
            THEN IF other = NULL
                 THEN Res(call_unary(t.M, function, klass).M, NULL)
                 ELSE call_binary(t.M, function, klass, other)
            ELSE Res(DEBUG_BREAK(Flag(t.M, "unknown_type")), NULL))

function_invoke(M, function, klass, other) ==
    IF function = NullFn \/ klass = NULL THEN Res(DEBUG_BREAK(M), NULL)
    ELSE Bind(function_get_type(M, function), LAMBDA t :
            CASE t.ret = "CONSTRUCTOR" -> Res(call_unary(t.M, function, klass).M, NULL)
              [] t.ret = "DESTRUCTOR" -> Res(call_unary(t.M, function, klass).M, NULL)
              [] t.ret = "MEMBER_FUNCTION" ->
                    IF other = NULL
                    THEN Res(call_unary(t.M, function, klass).M, NULL)
                    ELSE call_binary(t.M, function, klass, other)
              [] OTHER -> Res(DEBUG_BREAK(Flag(t.M, "unknown_type")), NULL))

\* ------------------------------------------------------------- lifecycle
\* The first n elements of a descriptor array, as the copy loops read them.
CopyMembers(H, p, n) == [i \in 1..n |-> DerefMember(H, FnPtr(p, i))]
CopyFunctions(H, p, n) == [i \in 1..n |-> DerefFunction(H, FnPtr(p, i))]

\* The record class_create installs for createInfo->ctor / ->dtor: a new
\* Function with fn and name copied, type and binary_member_fn not written.
InstalledRecord(src) == Function(src.name, "Uninit", src.fn, "Uninit")

\* class_create, in the order of its statements.  S carries the machine, the
\* new instance k and whether every allocation so far succeeded (when one
\* fails NULL is returned and what was allocated before is left behind).
Stage(M, k, ok) == [M |-> M, k |-> k, ok |-> ok]

create_instance(M, D) ==
    Bind(malloc(M, ClassBlock(NullClass)), LAMBDA a :
        IF a.ret = NULL THEN Stage(a.M, NULL, FALSE)
        ELSE Stage([a.M EXCEPT !.H[a.ret].k.name = D.name], a.ret, TRUE))

create_ctor(S, D) ==
    IF ~S.ok THEN S
    ELSE IF D.ctor = NULL THEN S
    ELSE Bind(malloc(S.M, RecordBlock(GarbageFunction)), LAMBDA a :
            IF a.ret = NULL THEN Stage(a.M, S.k, FALSE)
            ELSE Stage([read(a.M, D.ctor) EXCEPT
                          !.H[S.k].k.ctor = a.ret,
                          !.H[a.ret].fs = <<InstalledRecord(DerefFunction(a.M.H, FnPtr(D.ctor, 1)))>>],
                       S.k, TRUE))

create_dtor(S, D) ==
    IF ~S.ok THEN S
    ELSE IF D.dtor = NULL THEN S
    ELSE Bind(malloc(S.M, RecordBlock(GarbageFunction)), LAMBDA a :
            IF a.ret = NULL THEN Stage(a.M, S.k, FALSE)
            ELSE Stage([read(a.M, D.dtor) EXCEPT
                          !.H[S.k].k.dtor = a.ret,
                          !.H[a.ret].fs = <<InstalledRecord(DerefFunction(a.M.H, FnPtr(D.dtor, 1)))>>],
                       S.k, TRUE))

create_members(S, D) ==
    IF ~S.ok THEN S
    ELSE Bind(malloc(S.M, MembersBlock(<<>>)), LAMBDA a :
            IF a.ret = NULL THEN Stage(a.M, S.k, FALSE)
            ELSE Stage([(IF D.num_members > 0 THEN read(a.M, D.members) ELSE a.M) EXCEPT
                          !.H[S.k].k.members = a.ret,
                          !.H[S.k].k.num_members = D.num_members,
                          !.H[a.ret].ms = CopyMembers(a.M.H, D.members, D.num_members)],
                       S.k, TRUE))

create_functions(S, D) ==
    IF ~S.ok THEN S
    ELSE Bind(malloc(S.M, FunctionsBlock(<<>>)), LAMBDA a :
            IF a.ret = NULL THEN Stage(a.M, S.k, FALSE)
            ELSE Stage([(IF D.num_functions > 0 THEN read(a.M, D.functions) ELSE a.M) EXCEPT
                          !.H[S.k].k.functions = a.ret,
                          !.H[S.k].k.num_functions = D.num_functions,
                          !.H[a.ret].fs = CopyFunctions(a.M.H, D.functions, D.num_functions)],
                       S.k, TRUE))

\* class_create without its last block: the constructor is installed, never run.
create_dispatch_skipped(S) ==
    IF ~S.ok THEN Res(S.M, NULL) ELSE Res(S.M, S.k)

\* if (class_has_constructor(klass) == 1) { type = CONSTRUCTOR; function_invoke }
create_dispatch(S) ==
    IF ~S.ok THEN Res(S.M, NULL)
    ELSE Bind(class_has_constructor(S.M, S.k), LAMBDA h :
            IF h.ret = 1
            THEN Bind(h.M.H[S.k].k.ctor, LAMBDA c :
                 Bind([write(h.M, c) EXCEPT !.H[c].fs[1].type = "CONSTRUCTOR"], LAMBDA M1 :
                    Res(function_invoke(M1, FnPtr(c, 1), S.k, NULL).M, S.k)))
            ELSE Res(h.M, S.k))

\* class_create running the constructor before the function table is copied.
class_create_ctor_before_functions(M, createInfo) ==
    Bind(create_instance(M, createInfo), LAMBDA S1 :
    Bind(create_ctor(S1, createInfo), LAMBDA S2 :
    Bind(create_dtor(S2, createInfo), LAMBDA S3 :
    Bind(create_members(S3, createInfo), LAMBDA S4 :
    Bind(create_dispatch(S4), LAMBDA r :
    Bind(create_functions(Stage(r.M, S4.k, S4.ok), createInfo), LAMBDA S5 :
         IF S5.ok THEN Res(S5.M, S5.k) ELSE Res(S5.M, NULL)))))))

\* class_create running the constructor as soon as both records are installed.
class_create_ctor_before_tables(M, createInfo) ==
    Bind(create_instance(M, createInfo), LAMBDA S1 :
    Bind(create_ctor(S1, createInfo), LAMBDA S2 :
    Bind(create_dtor(S2, createInfo), LAMBDA S3 :
    Bind(create_dispatch(S3), LAMBDA r :
    Bind(create_members(Stage(r.M, S3.k, S3.ok), createInfo), LAMBDA S4 :
    Bind(create_functions(S4, createInfo), LAMBDA S5 :
         IF S5.ok THEN Res(S5.M, S5.k) ELSE Res(S5.M, NULL)))))))

class_create(M, createInfo) ==
    Bind(create_instance(M, createInfo), LAMBDA S1 :
    Bind(create_ctor(S1, createInfo), LAMBDA S2 :
    Bind(create_dtor(S2, createInfo), LAMBDA S3 :
    Bind(create_members(S3, createInfo), LAMBDA S4 :
    Bind(create_functions(S4, createInfo), LAMBDA S5 :
         create_dispatch(S5))))))

\* class_destroy, statement by statement.
destroy_ctor(M, klass) ==
    Bind(class_has_constructor(M, klass), LAMBDA h :
        IF h.ret = 1 THEN free(h.M, h.M.H[klass].k.ctor) ELSE h.M)

destroy_dtor(M, klass) ==
    Bind(class_has_destructor(M, klass), LAMBDA d :
        IF d.ret = 1
        THEN Bind(d.M.H[klass].k.dtor, LAMBDA g :
             Bind([write(d.M, g) EXCEPT !.H[g].fs[1].type = "DESTRUCTOR"], LAMBDA M1 :
             Bind(function_invoke(M1, FnPtr(g, 1), klass, NULL).M, LAMBDA M2 :
                free(read(M2, klass), M2.H[klass].k.dtor))))
        ELSE d.M)

destroy_members(M, klass) ==
    Bind(class_get_num_members(M, klass), LAMBDA n :
        IF n.ret > 0 THEN free(n.M, n.M.H[klass].k.members) ELSE n.M)

destroy_functions(M, klass) ==
    Bind(class_get_num_functions(M, klass), LAMBDA n :
        IF n.ret > 0 THEN free(n.M, n.M.H[klass].k.functions) ELSE n.M)

\* class_destroy releasing the tables before it dispatches the destructor.
class_destroy_tables_first(M, klass) ==
    IF klass = NULL THEN DEBUG_BREAK(M)
    ELSE Bind(destroy_ctor(M, klass), LAMBDA M1 :
         Bind(destroy_members(M1, klass), LAMBDA M2 :
         Bind(destroy_functions(M2, klass), LAMBDA M3 :
         Bind(destroy_dtor(M3, klass), LAMBDA M4 :
              free(M4, klass)))))

\* class_destroy releasing the function storage before the member storage.
class_destroy_functions_first(M, klass) ==
    IF klass = NULL THEN DEBUG_BREAK(M)
    ELSE Bind(destroy_ctor(M, klass), LAMBDA M1 :
         Bind(destroy_dtor(M1, klass), LAMBDA M2 :
         Bind(destroy_functions(M2, klass), LAMBDA M3 :
         Bind(destroy_members(M3, klass), LAMBDA M4 :
              free(M4, klass)))))

class_destroy(M, klass) ==
    IF klass = NULL THEN DEBUG_BREAK(M)
    ELSE Bind(destroy_ctor(M, klass), LAMBDA M1 :
         Bind(destroy_dtor(M1, klass), LAMBDA M2 :
         Bind(destroy_members(M2, klass), LAMBDA M3 :
         Bind(destroy_functions(M3, klass), LAMBDA M4 :
              free(M4, klass)))))

\* ---------------------------------------------------------------- tables
\* A caller's Member* / Function* argument: null, or pointing at a value.
MemberArg(m) == [null |-> FALSE, v |-> m]
NullMemberArg == [null |-> TRUE, v |-> GarbageMember]
FunctionArg(f) == [null |-> FALSE, v |-> f]
NullFunctionArg == [null |-> TRUE, v |-> GarbageFunction]

\* The content of an array of old elements reallocated to n slots: the elements
\* that fit are kept, the rest of the new block is not written yet.
ResizeMembers(old, n) == [i \in 1..n |-> IF i <= Len(old) THEN old[i] ELSE GarbageMember]
ResizeFunctions(old, n) == [i \in 1..n |-> IF i <= Len(old) THEN old[i] ELSE GarbageFunction]
MembersAt(H, p) == IF p = NULL THEN <<>> ELSE H[p].ms
FunctionsAt(H, p) == IF p = NULL THEN <<>> ELSE H[p].fs

\* klass->members[klass->num_members - 1] = *member;
store_member(M, klass, member) ==
    Bind(M.H[klass].k.members, LAMBDA p :
    Bind(M.H[klass].k.num_members, LAMBDA i :
        IF i \in 1..Len(M.H[p].ms)
        THEN [write(M, p) EXCEPT !.H[p].ms[i] = member]
        ELSE Flag(M, "out_of_bounds")))

class_add_member(M, klass, member) ==
    IF klass = NULL THEN DEBUG_BREAK(M)
    ELSE IF member.null THEN DEBUG_BREAK(M)
    ELSE Bind(class_get_num_members(M, klass), LAMBDA n :
         Bind(n.M.H[klass].k.members, LAMBDA old :
         Bind(realloc(n.M, old, MembersBlock(ResizeMembers(MembersAt(n.M.H, old), n.ret + 1))),
              LAMBDA r :
         Bind([write(r.M, klass) EXCEPT !.H[klass].k.members = r.ret], LAMBDA M1 :
            IF r.ret = NULL THEN M1
            ELSE store_member([M1 EXCEPT !.H[klass].k.num_members = @ + 1], klass, member.v)))))

\* klass->functions[klass->num_functions - 1] = *function;
store_function(M, klass, function) ==
    Bind(M.H[klass].k.functions, LAMBDA p :
    Bind(M.H[klass].k.num_functions, LAMBDA i :
        IF i \in 1..Len(M.H[p].fs)
        THEN [write(M, p) EXCEPT !.H[p].fs[i] = function]
        ELSE Flag(M, "out_of_bounds")))

class_add_function(M, klass, function) ==
    IF klass = NULL THEN DEBUG_BREAK(M)
    ELSE IF function.null THEN DEBUG_BREAK(M)
    ELSE Bind(class_get_num_functions(M, klass), LAMBDA n :
         Bind(n.M.H[klass].k.functions, LAMBDA old :
         Bind(realloc(n.M, old, FunctionsBlock(ResizeFunctions(FunctionsAt(n.M.H, old), n.ret + 1))),
              LAMBDA r :
         Bind([write(r.M, klass) EXCEPT !.H[klass].k.functions = r.ret], LAMBDA M1 :
            IF r.ret = NULL THEN M1
            ELSE store_function([M1 EXCEPT !.H[klass].k.num_functions = @ + 1], klass, function.v)))))

class_invoke_function(M, klass, other, index) ==
    IF klass = NULL THEN Res(DEBUG_BREAK(M), NULL)
    ELSE Bind(class_get_num_functions(M, klass), LAMBDA n :
            IF index > SizeSub(n.ret, 1) THEN Res(DEBUG_BREAK(n.M), NULL)
            ELSE Bind(class_get_function(n.M, klass, index), LAMBDA f :
                    function_invoke(f.M, f.ret, klass, other)))

\* ------------------------------------------------ the earlier iterations
\* The second iteration (src/unnamed/part_001, lines 1-393): no constructor, a
\* Function is (name, fn), and class_create takes over the descriptor's arrays.
class_create_2(M, createInfo) ==
    Bind(malloc(M, ClassBlock(NullClass)), LAMBDA a :
        IF a.ret = NULL THEN Res(a.M, NULL)
        ELSE Res([a.M EXCEPT !.H[a.ret].k =
                    [NullClass EXCEPT !.name = createInfo.name,
                                      !.members = createInfo.members,
                                      !.num_members = createInfo.num_members,
                                      !.functions = createInfo.functions,
                                      !.num_functions = createInfo.num_functions]],
                 a.ret))

class_destroy_2(M, klass) ==
    IF klass = NULL THEN DEBUG_BREAK(M)
    ELSE Bind(destroy_members(M, klass), LAMBDA M1 :
         Bind(destroy_functions(M1, klass), LAMBDA M2 :
              free(M2, klass)))

\* function = class_get_function(klass, index); fn = function->fn; fn(klass);
class_invoke_function_2(M, klass, index) ==
    IF klass = NULL THEN DEBUG_BREAK(M)
    ELSE Bind(class_get_num_functions(M, klass), LAMBDA n :
            IF index > SizeSub(n.ret, 1) THEN DEBUG_BREAK(n.M)
            ELSE Bind(class_get_function(n.M, klass, index), LAMBDA f :
                    call_unary(f.M, f.ret, klass).M))

\* The third iteration (src/unnamed/part_000): a constructor record, function
\* types CONSTRUCTOR and CLASS_METHOD, unary calls only; class_create takes over
\* the descriptor's constructor record and arrays, class_destroy frees them.
function_get_type_3(M, function) ==
    IF function = NullFn THEN Res(M, "CLASS_METHOD")
    ELSE Res(read(M, function.b), DerefFunction(M.H, function).type)

function_invoke_3(M, function, klass) ==
    IF function = NullFn \/ klass = NULL THEN DEBUG_BREAK(M)
    ELSE Bind(function_get_type_3(M, function), LAMBDA t :
            IF t.ret \in {"CONSTRUCTOR", "CLASS_METHOD"}
            THEN call_unary(t.M, function, klass).M
            ELSE DEBUG_BREAK(t.M))

class_create_3(M, createInfo) ==
    Bind(malloc(M, ClassBlock(NullClass)), LAMBDA a :
        IF a.ret = NULL THEN Res(a.M, NULL)
        ELSE Bind([a.M EXCEPT !.H[a.ret].k =
                     [NullClass EXCEPT !.name = createInfo.name,
                                       !.ctor = createInfo.ctor,
                                       !.members = createInfo.members,
                                       !.num_members = createInfo.num_members,
                                       !.functions = createInfo.functions,
                                       !.num_functions = createInfo.num_functions]],
                  LAMBDA M1 :
             Bind(class_has_constructor(M1, a.ret), LAMBDA h :
                IF h.ret = 1
                THEN Bind(h.M.H[a.ret].k.ctor, LAMBDA c :
                     Bind(IF Live(h.M.H, c)
                          THEN [h.M EXCEPT !.H[c].fs[1].type = "CONSTRUCTOR"]
                          ELSE write(h.M, c), LAMBDA M2 :
                        Res(function_invoke_3(M2, FnPtr(c, 1), a.ret), a.ret)))
                ELSE Res(h.M, a.ret))))

class_destroy_3(M, klass) ==
    IF klass = NULL THEN DEBUG_BREAK(M)
    ELSE Bind(destroy_members(M, klass), LAMBDA M1 :
         Bind(destroy_functions(M1, klass), LAMBDA M2 :
         Bind(class_has_constructor(M2, klass), LAMBDA h :
              free(IF h.ret = 1 THEN free(h.M, h.M.H[klass].k.ctor) ELSE h.M, klass))))

class_invoke_function_3(M, klass, index) ==
    IF klass = NULL THEN DEBUG_BREAK(M)
    ELSE Bind(class_get_num_functions(M, klass), LAMBDA n :
            IF index > SizeSub(n.ret, 1) THEN DEBUG_BREAK(n.M)
            ELSE Bind(class_get_function(n.M, klass, index), LAMBDA f :
                    function_invoke_3(f.M, f.ret, klass)))

\* ------------------------------------------------------- the caller's inputs
mX == Member("x", "F32", 1)
mY == Member("y", "F32", 3)
mZ == Member("z", "I32", 2)
mW == Member("w", "F64", 5)
\* create_vec2's add_fn: type and binary_member_fn written, fn never written.
fAdd == Function("vec2_add", "MEMBER_FUNCTION", "Uninit", "vec2_add")
\* A member function with both callables.
fBoth == Function("both", "MEMBER_FUNCTION", "my_class_method", "vec2_add")
\* Table entries whose kind is Constructor / Destructor and that also store a
\* binary callable.
fInit == Function("init", "CONSTRUCTOR", "vec2_ctor", "vec2_add")
fFini == Function("fini", "DESTRUCTOR", "vec2_dtor", "vec2_add")
\* The caller's ctor / dtor records, filled the way create_vec2 fills them (fn
\* and name only); the destructor is a callable that walks the instance.
CtorRecord == Function("ctor", "Uninit", "test_class_ctor", "Uninit")
DtorRecord == Function("dtor", "Uninit", "my_class_method", "Uninit")

\* The function a caller of the second iteration registers (main), and one of
\* the third iteration.
fMethod2 == Function("my_class_method", "Uninit", "my_class_method", "Uninit")
fMethod3 == Function("my_class_method", "CLASS_METHOD", "my_class_method", "Uninit")

DescMemberArrays == {<<>>, <<mX, mY>>}
DescFunctionArrays == {<<>>, <<fBoth, fInit>>}
AppendedMembers == {mZ, mW}
AppendedFunctions == {fAdd, fFini}
\* The indices the caller probes: the small ones and the largest size_t.
Indices == (0..MaxIndex) \cup {SIZE_MAX}
\* Which allocation of a call fails (0: none).  class_create allocates five times.
OomChoices == 0..5

NoHistory == [ctorB |-> NULL, dtorB |-> NULL, ctorCalls |-> 0, dtorCalls |-> 0]
\* What an accessor returned: a name, a number, a pointer or a type.
Val(s, n, p, t) == [s |-> s, n |-> n, p |-> p, t |-> t]
NoVal == Val(NullStr, 0, NullFn, "-")
NoCall ==
    [op |-> "none", h |-> NULL, oth |-> NULL, index |-> 0, ret |-> NULL,
     m |-> GarbageMember, f |-> GarbageFunction, oom |-> 0, val |-> NoVal]

\* The caller's descriptor lives in blocks 1..4: ctor record, dtor record,
\* member array, function array (a block it does not use is never live).
DescHeap(c, d, ms, fs) ==
    << IF c THEN RecordBlock(CtorRecord) ELSE NoBlock,
       IF d THEN RecordBlock(DtorRecord) ELSE NoBlock,
       IF ms # <<>> THEN MembersBlock(ms) ELSE NoBlock,
       IF fs # <<>> THEN FunctionsBlock(fs) ELSE NoBlock >>

Descriptor(c, d, ms, fs) ==
    [name |-> "Vec2",
     ctor |-> IF c THEN 1 ELSE NULL,
     dtor |-> IF d THEN 2 ELSE NULL,
     members |-> IF ms # <<>> THEN 3 ELSE NULL,
     num_members |-> Len(ms),
     functions |-> IF fs # <<>> THEN 4 ELSE NULL,
     num_functions |-> Len(fs)]

\* The state before the first library call: the caller has filled in a
\* ClassCreateInfo (with or without ctor and dtor, with empty or filled arrays).
InitFrom(cs, ds, mss, fss) ==
    \E c \in cs, d \in ds, ms \in mss, fs \in fss :
        /\ heap = DescHeap(c, d, ms, fs)
        /\ desc = Descriptor(c, d, ms, fs)
        /\ descState = "intact"
        /\ handles = {}
        /\ made = [h \in {} |-> NoHistory]
        /\ ev = <<>>
        /\ bad = {}
        /\ last = NoCall
        /\ steps = 0
        /\ failures = 0

Init == InitFrom(BOOLEAN, BOOLEAN, DescMemberArrays, DescFunctionArrays)
\* The second iteration's descriptor has no ctor and no dtor, the third's no dtor.
Init2 == InitFrom({FALSE}, {FALSE}, DescMemberArrays, {<<>>, <<fMethod2>>})
Init3 == InitFrom(BOOLEAN, {FALSE}, DescMemberArrays, {<<>>, <<fMethod3>>})

\* ------------------------------------------------------------- history
CountCalls(events, b, h) ==
    Cardinality({i \in 1..Len(events) :
        events[i].e = "call" /\ events[i].b = b /\ events[i].arg = h})

\* The history after a call: a new handle is entered with the record blocks
\* its instance holds, and every dispatch of a handle's ctor / dtor record
\* with that handle as argument is counted.
Tally(mk, H, new, events) ==
    [h \in (DOMAIN mk) \cup ({new} \ {NULL}) |->
        LET e == IF h = new
                 THEN [NoHistory EXCEPT !.ctorB = H[h].k.ctor, !.dtorB = H[h].k.dtor]
                 ELSE mk[h]
        IN [e EXCEPT
              !.ctorCalls = @ + (IF e.ctorB = NULL THEN 0 ELSE CountCalls(events, e.ctorB, h)),
              !.dtorCalls = @ + (IF e.dtorB = NULL THEN 0 ELSE CountCalls(events, e.dtorB, h))]]

\* What a library call leaves behind: the heap, its events, the handles hs the
\* caller now holds (new is the handle the call returned, if any).
Finish(M, hs, new, call) ==
    /\ heap' = M.H
    /\ ev' = M.ev
    /\ bad' = bad \cup M.bad
    /\ handles' = hs
    /\ made' = Tally(made, M.H, new, M.ev)
    /\ last' = call
    /\ steps' = steps + 1
    /\ failures' = failures + (IF M.failed THEN 1 ELSE 0)
    /\ UNCHANGED <<desc, descState>>

CanCall == steps < MaxSteps /\ bad = {}
\* The allocator's choice for a call: oom > 0 only while failures are left, and
\* only where the call reaches the allocation that fails.
MayFail(oom, M) == oom > 0 => (failures < MaxFailures /\ M.failed)

\* ---------------------------------------------------------------- actions
\* Class* klass = class_create(&createInfo);
\* The caller keeps the handle r.ret when it is not null.
Created(oom, r) ==
    /\ MayFail(oom, r.M)
    /\ Finish(r.M, IF r.ret = NULL THEN handles ELSE handles \cup {r.ret}, r.ret,
              [NoCall EXCEPT !.op = "create", !.ret = r.ret, !.oom = oom])

Create ==
    /\ CanCall
    /\ descState # "released"
    /\ \E oom \in OomChoices :
        \E r \in {class_create(Machine(heap, oom, FALSE), desc)} : Created(oom, r)

\* class_destroy(klass); the caller gives up the handle.
Destroyed(h, M) ==
    Finish(M, handles \ {h}, NULL, [NoCall EXCEPT !.op = "destroy", !.h = h])

Destroy ==
    /\ CanCall
    /\ \E h \in handles :
        \E M \in {class_destroy(Machine(heap, 0, FALSE), h)} : Destroyed(h, M)

\* class_add_member(klass, &member);
AddMember ==
    /\ CanCall
    /\ \E h \in handles, m \in AppendedMembers, oom \in 0..1, moves \in BOOLEAN :
        \E M \in {class_add_member(Machine(heap, oom, moves), h, MemberArg(m))} :
           /\ MayFail(oom, M)
           /\ oom = 1 => ~moves
           /\ Finish(M, handles, NULL,
                     [NoCall EXCEPT !.op = "add_member", !.h = h, !.m = m, !.oom = oom])

\* class_add_function(klass, &function);
AddFunctionOf(fs) ==
    /\ CanCall
    /\ \E h \in handles, f \in fs, oom \in 0..1, moves \in BOOLEAN :
        \E M \in {class_add_function(Machine(heap, oom, moves), h, FunctionArg(f))} :
           /\ MayFail(oom, M)
           /\ oom = 1 => ~moves
           /\ Finish(M, handles, NULL,
                     [NoCall EXCEPT !.op = "add_function", !.h = h, !.f = f, !.oom = oom])

AddFunction == AddFunctionOf(AppendedFunctions)

\* Class* c = class_invoke_function(klass, other, index); the caller owns c.
\* vec2_add builds its result from create_vec2's descriptor, which the model
\* takes to be the caller's, so a binary call needs it unreleased.
Invoke ==
    /\ CanCall
    /\ \E h \in handles, o \in handles \cup {NULL}, index \in Indices, oom \in OomChoices :
        /\ o # NULL => descState # "released"
        /\ \E r \in {class_invoke_function(Machine(heap, oom, FALSE), h, o, index)} :
              /\ MayFail(oom, r.M)
              /\ Finish(r.M, IF r.ret = NULL THEN handles ELSE handles \cup {r.ret}, r.ret,
                        [NoCall EXCEPT !.op = "invoke", !.h = h, !.oth = o, !.index = index,
                                       !.ret = r.ret, !.oom = oom])

\* The calls of the second iteration's caller.
Invoked(h, index, M) ==
    Finish(M, handles, NULL, [NoCall EXCEPT !.op = "invoke", !.h = h, !.index = index])

Create2 ==
    /\ CanCall
    /\ descState # "released"
    /\ \E oom \in 0..1 :
        \E r \in {class_create_2(Machine(heap, oom, FALSE), desc)} : Created(oom, r)

Destroy2 ==
    /\ CanCall
    /\ \E h \in handles :
        \E M \in {class_destroy_2(Machine(heap, 0, FALSE), h)} : Destroyed(h, M)

AddFunction2 == AddFunctionOf({fMethod2})

Invoke2 ==
    /\ CanCall
    /\ \E h \in handles, index \in Indices :
        \E M \in {class_invoke_function_2(Machine(heap, 0, FALSE), h, index)} :
            Invoked(h, index, M)

\* The calls of the third iteration's caller.
Create3 ==
    /\ CanCall
    /\ descState # "released"
    /\ \E oom \in 0..1 :
        \E r \in {class_create_3(Machine(heap, oom, FALSE), desc)} : Created(oom, r)

Destroy3 ==
    /\ CanCall
    /\ \E h \in handles :
        \E M \in {class_destroy_3(Machine(heap, 0, FALSE), h)} : Destroyed(h, M)

AddFunction3 == AddFunctionOf({fMethod3})

Invoke3 ==
    /\ CanCall
    /\ \E h \in handles, index \in Indices :
        \E M \in {class_invoke_function_3(Machine(heap, 0, FALSE), h, index)} :
            Invoked(h, index, M)

\* The caller overwrites the elements of its descriptor arrays.
ChangeDescriptor ==
    /\ CanCall
    /\ descState = "intact"
    /\ handles # {}
    /\ desc.num_members > 0 \/ desc.num_functions > 0
    /\ heap' = [b \in 1..Len(heap) |->
                  IF b = desc.members /\ Live(heap, b)
                  THEN [heap[b] EXCEPT !.ms = [i \in 1..Len(@) |-> [@[i] EXCEPT !.data = @ + 10]]]
                  ELSE IF b = desc.functions /\ Live(heap, b)
                  THEN [heap[b] EXCEPT !.fs = [i \in 1..Len(@) |-> [@[i] EXCEPT !.name = "changed"]]]
                  ELSE heap[b]]
    /\ descState' = "changed"
    /\ ev' = <<>>
    /\ last' = [NoCall EXCEPT !.op = "change_descriptor"]
    /\ steps' = steps + 1
    /\ UNCHANGED <<desc, handles, made, bad, failures>>

\* The caller releases its descriptor's records and arrays.
ReleaseDescriptor ==
    /\ CanCall
    /\ descState # "released"
    /\ handles # {}
    /\ heap' = [b \in 1..Len(heap) |->
                  IF b \in {desc.ctor, desc.dtor, desc.members, desc.functions} /\ Live(heap, b)
                  THEN [heap[b] EXCEPT !.st = "released"]
                  ELSE heap[b]]
    /\ descState' = "released"
    /\ ev' = <<>>
    /\ last' = [NoCall EXCEPT !.op = "release_descriptor"]
    /\ steps' = steps + 1
    /\ UNCHANGED <<desc, handles, made, bad, failures>>

Next ==
    \/ Create
    \/ Destroy
    \/ AddMember
    \/ AddFunction
    \/ Invoke
    \/ ChangeDescriptor
    \/ ReleaseDescriptor

Spec == Init /\ [][Next]_vars

\* The program of the second iteration.
Next2 ==
    \/ Create2
    \/ Destroy2
    \/ AddMember
    \/ AddFunction2
    \/ Invoke2
    \/ ChangeDescriptor
    \/ ReleaseDescriptor

SpecSecond == Init2 /\ [][Next2]_vars

\* The program of the third iteration.
Next3 ==
    \/ Create3
    \/ Destroy3
    \/ AddMember
    \/ AddFunction3
    \/ Invoke3
    \/ ChangeDescriptor
    \/ ReleaseDescriptor

SpecThird == Init3 /\ [][Next3]_vars

\* A caller that reads through the accessors, as class_debug_print and
\* my_class_method do, with a handle it holds or with a null one.  The member
\* and function accessors get the pointer class_get_member /
\* class_get_function returned for (klass, index).
ClassAccessors ==
    {"class_get_name", "class_get_num_members", "class_get_num_functions",
     "class_has_constructor", "class_has_destructor",
     "class_get_constructor", "class_get_destructor"}
ElementAccessors ==
    {"class_get_member", "class_get_function",
     "member_get_name", "member_get_type", "member_get_data",
     "function_get_name", "function_get_type"}

Access(acc, M, klass, index) ==
    CASE acc = "class_get_name" ->
            Bind(class_get_name(M, klass), LAMBDA r : Res(r.M, [NoVal EXCEPT !.s = r.ret]))
      [] acc = "class_get_num_members" ->
            Bind(class_get_num_members(M, klass), LAMBDA r : Res(r.M, [NoVal EXCEPT !.n = r.ret]))
      [] acc = "class_get_num_functions" ->
            Bind(class_get_num_functions(M, klass), LAMBDA r : Res(r.M, [NoVal EXCEPT !.n = r.ret]))
      [] acc = "class_has_constructor" ->
            Bind(class_has_constructor(M, klass), LAMBDA r : Res(r.M, [NoVal EXCEPT !.n = r.ret]))
      [] acc = "class_has_destructor" ->
            Bind(class_has_destructor(M, klass), LAMBDA r : Res(r.M, [NoVal EXCEPT !.n = r.ret]))
      [] acc = "class_get_constructor" ->
            Bind(class_get_constructor(M, klass), LAMBDA r : Res(r.M, [NoVal EXCEPT !.p = r.ret]))
      [] acc = "class_get_destructor" ->
            Bind(class_get_destructor(M, klass), LAMBDA r : Res(r.M, [NoVal EXCEPT !.p = r.ret]))
      [] acc = "class_get_member" ->
            Bind(class_get_member(M, klass, index), LAMBDA r : Res(r.M, [NoVal EXCEPT !.p = r.ret]))
      [] acc = "class_get_function" ->
            Bind(class_get_function(M, klass, index), LAMBDA r : Res(r.M, [NoVal EXCEPT !.p = r.ret]))
      [] acc = "member_get_name" ->
            Bind(class_get_member(M, klass, index), LAMBDA m :
            Bind(member_get_name(m.M, m.ret), LAMBDA r : Res(r.M, [NoVal EXCEPT !.s = r.ret])))
      [] acc = "member_get_type" ->
            Bind(class_get_member(M, klass, index), LAMBDA m :
            Bind(member_get_type(m.M, m.ret), LAMBDA r : Res(r.M, [NoVal EXCEPT !.t = r.ret])))
      [] acc = "member_get_data" ->
            Bind(class_get_member(M, klass, index), LAMBDA m :
            Bind(member_get_data(m.M, m.ret), LAMBDA r : Res(r.M, [NoVal EXCEPT !.n = r.ret])))
      [] acc = "function_get_name" ->
            Bind(class_get_function(M, klass, index), LAMBDA f :
            Bind(function_get_name(f.M, f.ret), LAMBDA r : Res(r.M, [NoVal EXCEPT !.s = r.ret])))
      [] acc = "function_get_type" ->
            Bind(class_get_function(M, klass, index), LAMBDA f :
            Bind(function_get_type(f.M, f.ret), LAMBDA r : Res(r.M, [NoVal EXCEPT !.t = r.ret])))

Query ==
    /\ CanCall
    /\ \E acc \in ClassAccessors \cup ElementAccessors, h \in handles \cup {NULL} :
        \E index \in (IF acc \in ElementAccessors THEN 0..MaxIndex ELSE {0}) :
        \E r \in {Access(acc, Machine(heap, 0, FALSE), h, index)} :
            Finish(r.M, handles, NULL,
                   [NoCall EXCEPT !.op = acc, !.h = h, !.index = index, !.val = r.ret])

NextAccessors ==
    \/ Create
    \/ Destroy
    \/ Query

SpecAccessors == Init /\ [][NextAccessors]_vars

\* -------------------------------------------------------------- observers
\* What a caller sees through the accessors in a heap H.
Quiet(H) == Machine(H, 0, FALSE)
MemberCount(H, h) == class_get_num_members(Quiet(H), h).ret
FunctionCount(H, h) == class_get_num_functions(Quiet(H), h).ret
GetMember(H, h, i) == class_get_member(Quiet(H), h, i).ret
GetFunction(H, h, i) == class_get_function(Quiet(H), h, i).ret
\* The element behind get_member(h, i) / get_function(h, i): <<e>>, or <<>> when
\* the pointer returned is null or does not point into a live array.
MemberAt(H, h, i) ==
    IF ValidMember(H, GetMember(H, h, i))
    THEN <<DerefMember(H, GetMember(H, h, i))>> ELSE <<>>
FunctionAt(H, h, i) ==
    IF ValidFunction(H, GetFunction(H, h, i))
    THEN <<DerefFunction(H, GetFunction(H, h, i))>> ELSE <<>>
\* Both tables of h as the accessors show them, index by index.
Tables(H, h) ==
    [ms |-> [i \in 0..(MemberCount(H, h) - 1) |-> MemberAt(H, h, i)],
     fs |-> [i \in 0..(FunctionCount(H, h) - 1) |-> FunctionAt(H, h, i)]]

IsCall(e) == e.e = "call"
IsReturn(e) == e.e = "return"
Calls(events) == SelectSeq(events, IsCall)
Returns(events) == SelectSeq(events, IsReturn)
\* The function record the last class_invoke_function resolved.
InvokedRecord == FunctionAt(heap, last.h, last.index)

\* ----------------------------------------------------------------- claims
\* C1: a class created with a constructor has that constructor dispatched
\* exactly once, in unary form with the new instance as its only argument,
\* inside the create that returns the instance (directly or within vec2_add),
\* and no append, invoke or destroy dispatches it again.
C1_ConstructorOnce ==
    \A h \in DOMAIN made : made[h].ctorB # NULL =>
        /\ made[h].ctorCalls = 1
        /\ \A i \in 1..Len(ev) : (ev[i].e = "call" /\ ev[i].b = made[h].ctorB) =>
              /\ ev[i].form = "unary" /\ ev[i].arg = h /\ ev[i].oth = NULL
              /\ ev[i].kind = "CONSTRUCTOR"
              /\ last.op \in {"create", "invoke"} /\ last.ret = h

\* A class with a constructor has been created, used and destroyed.
C1_Witness ==
    \E h \in DOMAIN made :
        /\ made[h].ctorB # NULL /\ made[h].ctorCalls = 1
        /\ h \notin handles /\ last.op = "destroy" /\ last.h = h

\* C2: a class created with a destructor has it dispatched exactly once, inside
\* destroy, with the instance as argument, while neither the member storage
\* nor the function storage has been released; never before destroy.
C2_DestructorOnce ==
    \A h \in DOMAIN made : made[h].dtorB # NULL =>
        /\ made[h].dtorCalls = (IF h \in handles THEN 0 ELSE 1)
        /\ \A i \in 1..Len(ev) : (ev[i].e = "call" /\ ev[i].b = made[h].dtorB) =>
              /\ last.op = "destroy" /\ last.h = h
              /\ ev[i].form = "unary" /\ ev[i].arg = h /\ ev[i].oth = NULL
              /\ \A b \in ev[i].gone : heap[b].kind \notin {"class", "members", "functions"}

\* A class with a destructor and non-empty tables has been destroyed.
C2_Witness ==
    /\ last.op = "destroy"
    /\ made[last.h].dtorB # NULL /\ made[last.h].dtorCalls = 1
    /\ \E i, j \in 1..Len(ev) :
          /\ ev[i].e = "free" /\ heap[ev[i].b].kind = "members"
          /\ ev[j].e = "free" /\ heap[ev[j].b].kind = "functions"

\* C3: after class_add_member(C, e) on a class with n members the count is
\* n + 1, get_member(C, n) is e, and every index below n resolves to the
\* element it resolved to before.
C3_AppendStability ==
    [][last'.op = "add_member" =>
          /\ MemberCount(heap', last'.h) = MemberCount(heap, last'.h) + 1
          /\ MemberAt(heap', last'.h, MemberCount(heap, last'.h)) = <<last'.m>>
          /\ \A i \in 0..(MemberCount(heap, last'.h) - 1) :
                MemberAt(heap', last'.h, i) = MemberAt(heap, last'.h, i)]_vars

\* C4: class_add_function(C, f) on a class with n functions makes the count
\* n + 1, puts f at index n, keeps every earlier function index and leaves the
\* member table, name, ctor and dtor alone; class_add_member leaves the
\* function table alone; no operation removes or reorders a slot of a class
\* the caller still holds.
C4_AppendOnlyTables ==
    [][/\ last'.op = "add_function" =>
            /\ FunctionCount(heap', last'.h) = FunctionCount(heap, last'.h) + 1
            /\ FunctionAt(heap', last'.h, FunctionCount(heap, last'.h)) = <<last'.f>>
            /\ Tables(heap', last'.h).ms = Tables(heap, last'.h).ms
            /\ heap'[last'.h].k.name = heap[last'.h].k.name
            /\ heap'[last'.h].k.ctor = heap[last'.h].k.ctor
            /\ heap'[last'.h].k.dtor = heap[last'.h].k.dtor
       /\ last'.op = "add_member" => Tables(heap', last'.h).fs = Tables(heap, last'.h).fs
       /\ \A h \in handles \cap handles' :
            /\ \A i \in 0..(MemberCount(heap, h) - 1) :
                  MemberAt(heap', h, i) = MemberAt(heap, h, i)
            /\ \A i \in 0..(FunctionCount(heap, h) - 1) :
                  FunctionAt(heap', h, i) = FunctionAt(heap, h, i)]_vars

\* C5: invoking a table function of kind MEMBER_FUNCTION without a second
\* instance calls its unary callable with the instance and returns nothing;
\* with a second instance it calls its binary callable with (instance, other)
\* and returns the instance that callable returned.
C5_MemberFunctionDispatch ==
    (/\ last.op = "invoke"
     /\ InvokedRecord # <<>>
     /\ InvokedRecord[1].type = "MEMBER_FUNCTION") =>
        /\ Calls(ev) # <<>>
        /\ Calls(ev)[1].b = heap[last.h].k.functions
        /\ Calls(ev)[1].arg = last.h
        /\ IF last.oth = NULL
           THEN /\ Len(Calls(ev)) = 1
                /\ Calls(ev)[1].form = "unary"
                /\ Calls(ev)[1].fnc = InvokedRecord[1].fn
                /\ Calls(ev)[1].oth = NULL
                /\ last.ret = NULL
           ELSE /\ Calls(ev)[1].form = "binary"
                /\ Calls(ev)[1].fnc = InvokedRecord[1].bin
                /\ Calls(ev)[1].oth = last.oth
                /\ Len(Returns(ev)) = 1
                /\ last.ret = Returns(ev)[1].b

\* A member function has been invoked with a second instance and has returned
\* a new instance.
C5_Witness ==
    /\ last.op = "invoke" /\ last.oth # NULL /\ last.ret # NULL
    /\ InvokedRecord # <<>> /\ InvokedRecord[1].type = "MEMBER_FUNCTION"
    /\ last.ret \notin {last.h, last.oth}

\* C6: a function of kind CONSTRUCTOR or DESTRUCTOR is always called in unary
\* form with the instance as sole argument and yields nothing, whether or not
\* a second instance is passed and whether or not the record stores a binary
\* callable.
C6_CtorDtorKindsUnary ==
    /\ \A i \in 1..Len(ev) :
          (ev[i].e = "call" /\ ev[i].kind \in {"CONSTRUCTOR", "DESTRUCTOR"}) =>
              ev[i].form = "unary" /\ ev[i].arg # NULL /\ ev[i].oth = NULL
    /\ (/\ last.op = "invoke"
        /\ InvokedRecord # <<>>
        /\ InvokedRecord[1].type \in {"CONSTRUCTOR", "DESTRUCTOR"}) =>
           /\ Len(Calls(ev)) = 1
           /\ Calls(ev)[1].form = "unary"
           /\ Calls(ev)[1].fnc = InvokedRecord[1].fn
           /\ Calls(ev)[1].arg = last.h
           /\ last.ret = NULL

\* A table entry of kind DESTRUCTOR that stores a binary callable has been
\* invoked with a second instance.
C6_Witness ==
    /\ last.op = "invoke" /\ last.oth # NULL
    /\ InvokedRecord # <<>>
    /\ InvokedRecord[1].type = "DESTRUCTOR" /\ InvokedRecord[1].bin = "vec2_add"
    /\ Len(Calls(ev)) = 1

\* C7: for every class the caller holds, class_get_member and
\* class_get_function return null for every index at or beyond the count and
\* a pointer to the element stored at the index for every index below it.
C7_AccessorBounds ==
    \A h \in handles : \A i \in Indices :
        /\ IF i < MemberCount(heap, h)
           THEN /\ GetMember(heap, h, i) = FnPtr(heap[h].k.members, i + 1)
                /\ ValidMember(heap, GetMember(heap, h, i))
           ELSE GetMember(heap, h, i) = NullFn
        /\ IF i < FunctionCount(heap, h)
           THEN /\ GetFunction(heap, h, i) = FnPtr(heap[h].k.functions, i + 1)
                /\ ValidFunction(heap, GetFunction(heap, h, i))
           ELSE GetFunction(heap, h, i) = NullFn

\* C8: class_invoke_function with an index at or beyond the function count
\* (also with no functions at all) calls no callable, loads from no function
\* record and yields no instance.
C8_InvokeBounds ==
    (last.op = "invoke" /\ last.index >= FunctionCount(heap, last.h)) =>
        /\ Calls(ev) = <<>>
        /\ bad \cap {"null_deref", "use_after_release", "bad_call", "out_of_bounds"} = {}
        /\ last.ret = NULL

\* C9: class_create copies the descriptor's arrays: what the caller does to the
\* descriptor's arrays afterwards changes no table of an instance, an append to
\* or the destruction of an instance changes no array of the descriptor, and
\* two instances never use the same table storage.
C9_DeepCopy ==
    [][/\ last'.op \in {"change_descriptor", "release_descriptor"} =>
            \A h \in handles : Tables(heap', h) = Tables(heap, h)
       /\ last'.op \in {"add_member", "add_function", "destroy"} =>
            \A b \in {desc.members, desc.functions} \ {NULL} : heap'[b] = heap[b]
       /\ \A h1, h2 \in handles' : h1 # h2 =>
            {heap'[h1].k.members, heap'[h1].k.functions}
                \cap {heap'[h2].k.members, heap'[h2].k.functions} \subseteq {NULL}]_vars

\* The place of an event in the order of class_destroy: the destructor's call,
\* then the release of member storage, function storage, the instance.
DestroyRank(e) ==
    IF e.e = "call" THEN 0
    ELSE IF e.e # "free" THEN -1
    ELSE CASE heap[e.b].kind = "members" -> 1
           [] heap[e.b].kind = "functions" -> 2
           [] heap[e.b].kind = "class" -> 3
           [] OTHER -> -1

C11_CountsMatchStorage ==
    \A h \in handles :
        /\ Live(heap, h)
        /\ heap[h].k.num_members =
              (IF Live(heap, heap[h].k.members) THEN Len(MembersAt(heap, heap[h].k.members)) ELSE 0)
        /\ heap[h].k.num_functions =
              (IF Live(heap, heap[h].k.functions) THEN Len(FunctionsAt(heap, heap[h].k.functions)) ELSE 0)

\* C12: with a descriptor that supplies only a name (no ctor, no dtor, no
\* members, no functions) class_create returns a live instance for which
\* class_has_constructor and class_has_destructor are 0 and both counts are 0,
\* and neither class_create nor class_destroy of such an instance calls any
\* callable; class_destroy meets no undefined behaviour.
C12_NameOnlyClass ==
    (desc.ctor = NULL /\ desc.dtor = NULL /\ desc.num_members = 0 /\ desc.num_functions = 0) =>
        /\ \A h \in handles :
              /\ class_has_constructor(Quiet(heap), h).ret = 0
              /\ class_has_destructor(Quiet(heap), h).ret = 0
        /\ (last.op = "create" /\ last.ret # NULL) =>
              /\ Live(heap, last.ret)
              /\ MemberCount(heap, last.ret) = 0
              /\ FunctionCount(heap, last.ret) = 0
              /\ Calls(ev) = <<>>
              /\ bad = {}
        /\ last.op = "destroy" =>
              /\ Calls(ev) = <<>>
              /\ ~Live(heap, last.h)
              /\ bad = {}

\* A name-only class has been created and then destroyed (test_class_test).
C12_Witness ==
    /\ desc.ctor = NULL /\ desc.dtor = NULL /\ desc.num_members = 0 /\ desc.num_functions = 0
    /\ last.op = "destroy"
    /\ steps = 2
    /\ failures = 0

\* C13: class_invoke_function(a, b, index) on a binary member function
\* (vec2_add), with a and b holding two members as create_vec2 makes them,
\* returns an instance c that is new (not a handle the caller held), live, with
\* member and function storage of its own; c's first two members are the sums
\* of a's and b's; the tables of every instance the caller held read the same
\* as before the call, and the call meets no undefined behaviour.  Destroying
\* an instance leaves the tables of all other instances as they were.
C13_BinaryInvokeFrame ==
    [][/\ ( /\ last'.op = "invoke" /\ last'.oth # NULL
            /\ desc.num_members = 2
            /\ \A h \in {last'.h, last'.oth}, i \in 0..1 : MemberAt(heap, h, i) # <<>>
            /\ FunctionAt(heap, last'.h, last'.index) # <<>>
            /\ FunctionAt(heap, last'.h, last'.index)[1].type = "MEMBER_FUNCTION"
            /\ FunctionAt(heap, last'.h, last'.index)[1].bin = "vec2_add" )
          => \E c \in {last'.ret} :
                /\ bad' = {}
                /\ c # NULL /\ c \notin handles /\ Live(heap', c)
                /\ Live(heap', heap'[c].k.members) /\ Live(heap', heap'[c].k.functions)
                /\ \A h \in handles :
                      /\ heap'[c].k.members # heap'[h].k.members
                      /\ heap'[c].k.functions # heap'[h].k.functions
                      /\ Tables(heap', h) = Tables(heap, h)
                /\ \A i \in 0..1 :
                      MemberAt(heap', c, i)[1].data =
                          MemberAt(heap, last'.h, i)[1].data + MemberAt(heap, last'.oth, i)[1].data
       /\ last'.op = "destroy" =>
             \A h \in handles' : Live(heap', h) /\ Tables(heap', h) = Tables(heap, h)
      ]_vars

\* C14: an accessor called with a null Class handle, or with the null Member /
\* Function pointer obtained from one, meets no undefined behaviour and returns
\* its sentinel: the name accessors the empty name, the counts 0, has_* 0,
\* get_member / get_function and the ctor / dtor getters the null pointer; in
\* particular member_get_data does not load through the null member.
C14_NullHandleSentinels ==
    (last.op \in ClassAccessors \cup ElementAccessors /\ last.h = NULL) =>
        /\ bad = {}
        /\ last.op \in {"class_get_name", "member_get_name", "function_get_name"} =>
              last.val.s = Str("")
        /\ last.op \in {"class_get_num_members", "class_get_num_functions",
                        "class_has_constructor", "class_has_destructor"} =>
              last.val.n = 0
        /\ last.op \in {"class_get_member", "class_get_function",
                        "class_get_constructor", "class_get_destructor"} =>
              last.val.p = NullFn

\* C15: for every instance the caller holds, the Function record behind
\* class_get_constructor, the one behind class_get_destructor and every record
\* class_get_function resolves has a type among CONSTRUCTOR, DESTRUCTOR and
\* MEMBER_FUNCTION, from the moment class_create returned, and function_invoke
\* never takes its unknown-type branch.
C15_DefinedKinds ==
    /\ "unknown_type" \notin bad
    /\ \A h \in handles :
          /\ \A p \in {class_get_constructor(Quiet(heap), h).ret,
                       class_get_destructor(Quiet(heap), h).ret} \ {NullFn} :
                function_get_type(Quiet(heap), p).ret \in FunctionTypes
          /\ \A i \in 0..(FunctionCount(heap, h) - 1) :
                FunctionAt(heap, h, i) # <<>> => FunctionAt(heap, h, i)[1].type \in FunctionTypes

\* C16: at the moment class_destroy calls the destructor, none of the
\* instance's blocks has been released: the constructor record, the destructor
\* record, the member storage, the function storage and the instance are live.
C16_DestructorSeesLiveInstance ==
    last.op = "destroy" =>
        \A i \in 1..Len(ev) :
            (ev[i].e = "call" /\ ev[i].arg = last.h) => ev[i].gone = {}

\* C17: when class_destroy(klass) returns, every block the instance held
\* before the call (constructor record, destructor record, member storage,
\* function storage, and the instance) has been released, whatever the sizes
\* of the tables, a table of zero elements included.
C17_DestroyReleasesAll ==
    [][last'.op = "destroy" =>
          \A b \in {last'.h, heap[last'.h].k.ctor, heap[last'.h].k.dtor,
                    heap[last'.h].k.members, heap[last'.h].k.functions} \ {NULL} :
              ~Live(heap', b)
      ]_vars

\* C18: class_invoke_function never calls through a callable pointer that the
\* Function record does not supply: a record with only binary_member_fn
\* written, invoked with no second instance, is not called through fn, and a
\* record with only fn written, invoked with a second instance, is not called
\* through binary_member_fn.
C18_OnlySuppliedForms ==
    last.op = "invoke" =>
        /\ "bad_call" \notin bad
        /\ \A i \in 1..Len(ev) : ev[i].e = "call" => ev[i].fnc # "Uninit"

\* C19: when class_create calls the constructor, the instance it passes is
\* fully populated: its name is the descriptor's, its counts are the
\* descriptor's, and every index below a count resolves, in its member or
\* function storage, to the descriptor's element of that index.
C19_ConstructorSeesPopulated ==
    (last.op \in {"create", "invoke"} /\ last.ret # NULL) =>
        \A i \in 1..Len(ev) :
            (ev[i].e = "call" /\ ev[i].arg = last.ret /\ ev[i].b = heap[last.ret].k.ctor) =>
                /\ ev[i].seen.name = desc.name
                /\ ev[i].seen.num_members = desc.num_members
                /\ ev[i].seen.num_functions = desc.num_functions
                /\ \A k \in 1..desc.num_members :
                      /\ k <= Len(ev[i].seen.ms)
                      /\ ev[i].seen.ms[k] = DerefMember(heap, FnPtr(desc.members, k))
                /\ \A k \in 1..desc.num_functions :
                      /\ k <= Len(ev[i].seen.fs)
                      /\ ev[i].seen.fs[k] = DerefFunction(heap, FnPtr(desc.functions, k))

\* class_create has run the constructor of a class with two members and two
\* functions.
C19_Witness ==
    /\ last.op = "create" /\ last.ret # NULL
    /\ desc.num_members = 2 /\ desc.num_functions = 2
    /\ \E i \in 1..Len(ev) :
          ev[i].e = "call" /\ ev[i].arg = last.ret /\ ev[i].b = heap[last.ret].k.ctor

\* C20: when class_create returns NULL because one of its allocations failed,
\* it has not called the constructor (nor anything else): the constructor
\* never runs on an instance the caller cannot later destroy.  The same holds
\* for the class_create inside a binary member function.
C20_NoConstructorOnFailure ==
    /\ (last.op = "create" /\ last.ret = NULL) => Calls(ev) = <<>>
    /\ (last.op = "invoke" /\ last.ret = NULL /\ last.oom > 0) =>
          \A i \in 1..Len(ev) : ev[i].e = "call" => ev[i].arg = last.h

\* class_create of a descriptor with a constructor failed at its last
\* allocation, the function storage.
C20_Witness ==
    /\ last.op = "create" /\ last.ret = NULL
    /\ desc.ctor # NULL /\ desc.dtor # NULL
    /\ last.oom = 5

====
